---- MODULE Spec2Model ----
(***************************************************************************)
(* State-machine model of experiments/utils.py: the batched evaluation of  *)
(* log-likelihoods, the batched generation of samples, the FID data sets   *)
(* and the masked image completions.  One behaviour is one call of one of  *)
(* the four functions; pc is the position inside the called function.      *)
(* Arrays indexed by Python code (x, ll, pixels) are functions on 0..n-1;  *)
(* batches (the sample axis of a tensor, lists, call logs) are sequences.  *)
(***************************************************************************)
EXTENDS Integers, Sequences, FiniteSets

\* ---------------------------------------------------------------- bounds
MaxN == 5
MaxB == 4
MaxM == 3
MaxDim == 3
MaxC == 1

\* Values of the data items and of the per-sample scores the SPN gives them.
DataVals == {0, 1}
ScoreVals == {-2, -1, 0}

\* batch_size = None of collect_samples
None == -1
\* np.nan written into the masked pixels
NaN == -1
\* the value model.mpe puts in place of a missing pixel
Completed == -2

\* ------------------------------------------------------- Python semantics
\* list(range(start, stop, step)) for step > 0
PyRange(start, stop, step) ==
    LET cnt == IF stop <= start THEN 0 ELSE (stop - start + step - 1) \div step
    IN  [j \in 1..cnt |-> start + (j - 1) * step]

\* A slice bound normalised as Python does: negative counts from the end,
\* then clamped to [0, len].
PyBound(len, b) ==
    LET nb == IF b < 0 THEN b + len ELSE b
    IN  IF nb < 0 THEN 0 ELSE IF nb > len THEN len ELSE nb

\* The half-open index range <<lo, hi>> that a[b1:b2] addresses
PySlice(len, b1, b2) ==
    LET lo == PyBound(len, b1)
        hi == PyBound(len, b2)
    IN  <<lo, IF hi < lo THEN lo ELSE hi>>

\* a[-r:] : the stop bound is omitted, which is the end of the array
PySliceFrom(len, b1) == <<PyBound(len, b1), len>>

InRange(rg, p) == rg[1] <= p /\ p < rg[2]

RECURSIVE SumOver(_, _)
SumOver(f, S) ==
    IF S = {} THEN 0
    ELSE LET p == CHOOSE q \in S : TRUE IN f[p] + SumOver(f, S \ {p})

RECURSIVE Concat(_)
Concat(ss) == IF ss = <<>> THEN <<>> ELSE Head(ss) \o Concat(Tail(ss))

\* Injective sequences of length n over S: choice(len, size=n, replace=False)
InjSeqs(S, n) ==
    {s \in [1..n -> S] : \A a, b \in 1..n : a # b => s[a] # s[b]}

VARIABLES
    fn, pc, err, ret,
    n_samples, batch_size,
    x, spn, ll, it, ranges, writes,
    model_training, model_device, to_calls, eval_calls,
    sample_calls, mpe_calls, gen_next,
    batches, k, fid_samples,
    data_len, rng_draws, data_indices,
    channels, height, width, samples_idx, samples,
    samples_up, samples_down, samples_left, samples_right,
    uncomplete_samples, complete_samples

ctlVars == <<fn, pc, err, ret, n_samples, batch_size>>
ellVars == <<x, spn, ll, it, ranges, writes>>
modelVars == <<model_training, model_device, to_calls, eval_calls,
               sample_calls, mpe_calls, gen_next>>
csVars == <<batches, k, fid_samples>>
dataVars == <<data_len, rng_draws, data_indices, channels, height, width>>
cicVars == <<samples_idx, samples, samples_up, samples_down, samples_left,
             samples_right, uncomplete_samples, complete_samples>>
vars == <<ctlVars, ellVars, modelVars, csVars, dataVars, cicVars>>

\* ------------------------------------------------------------ initial state
\* The values every variable has before the called function touches it.
Idle ==
    /\ err = "none" /\ ret = <<>>
    /\ ll = <<>> /\ it = 1 /\ ranges = <<>> /\ writes = <<>>
    /\ model_device = "cpu" /\ to_calls = 0 /\ eval_calls = 0
    /\ sample_calls = <<>> /\ mpe_calls = 0 /\ gen_next = 0
    /\ batches = <<>> /\ k = 0 /\ fid_samples = <<>>
    /\ rng_draws = 0 /\ data_indices = <<>>
    /\ samples_idx = <<>> /\ samples = <<>>
    /\ samples_up = <<>> /\ samples_down = <<>>
    /\ samples_left = <<>> /\ samples_right = <<>>
    /\ uncomplete_samples = <<>> /\ complete_samples = <<>>

NoData == data_len = 0 /\ channels = 0 /\ height = 0 /\ width = 0

\* evaluate_log_likelihoods(spn, x, batch_size)
InitELL ==
    /\ fn = "ell" /\ pc = "ell_alloc"
    /\ n_samples \in 0..MaxN
    /\ batch_size \in 1..MaxB
    /\ x \in [0..(n_samples - 1) -> DataVals]
    /\ spn \in [DataVals -> ScoreVals]
    /\ model_training = FALSE
    /\ NoData

\* collect_samples(model, n_samples, batch_size)
InitCS ==
    /\ fn = "cs" /\ pc = "cs_eval"
    /\ n_samples \in 0..MaxN
    /\ batch_size \in {None} \cup (1..MaxB)
    /\ x = <<>> /\ spn = <<>>
    /\ model_training \in BOOLEAN
    /\ NoData

\* sample_fid_datasets(model, data_test, n_samples, batch_size, random_state)
InitFID ==
    /\ fn = "fid" /\ pc = "fid_check"
    /\ n_samples \in 0..MaxN
    /\ batch_size \in 1..MaxB
    /\ x = <<>> /\ spn = <<>>
    /\ model_training \in BOOLEAN
    /\ data_len \in 1..MaxM
    /\ channels = 0 /\ height = 0 /\ width = 0

\* collect_image_completions(model, data_test, n_samples, random_state, device)
InitCIC ==
    /\ fn = "cic" /\ pc = "cic_to"
    /\ n_samples \in 0..(MaxM + 1)
    /\ batch_size = None
    /\ x = <<>> /\ spn = <<>>
    /\ model_training \in BOOLEAN
    /\ data_len \in 1..MaxM
    /\ channels \in 1..MaxC
    /\ height \in 1..MaxDim
    /\ width \in 1..MaxDim

Init == Idle /\ (InitELL \/ InitCS \/ InitFID \/ InitCIC)

\* A failure of a collaborator call (log_likelihood, model.sample, model.mpe)
\* is a Python exception: it leaves the function at once.
Raise(e) == pc' = "raised" /\ err' = e /\ ret' = <<>>

\* ------------------------------------------------ evaluate_log_likelihoods
\* x[lo:hi] as a batch
XSlice(rg) == [j \in 1..(rg[2] - rg[1]) |-> x[rg[1] + j - 1]]

\* log_likelihood(spn, batch): one score per sample of the batch, in order
log_likelihood(s, xs) == [j \in 1..Len(xs) |-> s[xs[j]]]

\* a[lo:hi] = vals
AssignSlice(a, rg, vals) ==
    [p \in DOMAIN a |-> IF InRange(rg, p) THEN vals[p - rg[1] + 1] ELSE a[p]]

\* ghost: how many times each position of ll has been written
CountWrites(w, rg) == [p \in DOMAIN w |-> IF InRange(rg, p) THEN w[p] + 1 ELSE w[p]]

\* range(0, n_samples - batch_size, batch_size)
FullBatchStarts == PyRange(0, n_samples - batch_size, batch_size)

\* n_remaining_samples = n_samples % batch_size
n_remaining_samples == n_samples % batch_size

\* (np.mean(ll), 2 * np.std(ll) / sqrt(n)) kept exact: the mean is
\* st[1] / st[2] and the population variance is st[3] / st[2]^2, so the
\* second statistic is 0 exactly when st[3] = 0; st[2] = 0 is the nan of an
\* empty vector.
Stats(v) ==
    LET n == Cardinality(DOMAIN v)
        s == SumOver(v, DOMAIN v)
        q == SumOver([p \in DOMAIN v |-> v[p] * v[p]], DOMAIN v)
    IN  <<s, n, n * q - s * s>>

LLAlloc ==
    /\ fn = "ell" /\ pc = "ell_alloc"
    /\ ll' = [p \in 0..(n_samples - 1) |-> 0]
    /\ writes' = [p \in 0..(n_samples - 1) |-> 0]
    /\ it' = 1
    /\ pc' = "ell_loop"
    /\ UNCHANGED <<fn, err, ret, n_samples, batch_size, x, spn, ranges>>
    /\ UNCHANGED <<modelVars, csVars, dataVars, cicVars>>

LLBatch ==
    /\ fn = "ell" /\ pc = "ell_loop" /\ it <= Len(FullBatchStarts)
    /\ LET i == FullBatchStarts[it]
           rg == PySlice(n_samples, i, i + batch_size)
       IN  /\ ll' = AssignSlice(ll, rg, log_likelihood(spn, XSlice(rg)))
           /\ writes' = CountWrites(writes, rg)
           /\ ranges' = Append(ranges, rg)
    /\ it' = it + 1
    /\ UNCHANGED <<ctlVars, x, spn>>
    /\ UNCHANGED <<modelVars, csVars, dataVars, cicVars>>

\* A failing full batch caught inside the loop, which then goes on with the
\* next batch.
LLBatchFail_swallow ==
    /\ fn = "ell" /\ pc = "ell_loop" /\ it <= Len(FullBatchStarts)
    /\ LET i == FullBatchStarts[it]
       IN  ranges' = Append(ranges, PySlice(n_samples, i, i + batch_size))
    /\ err' = "CollaboratorError"
    /\ it' = it + 1
    /\ UNCHANGED <<fn, pc, ret, n_samples, batch_size, x, spn, ll, writes>>
    /\ UNCHANGED <<modelVars, csVars, dataVars, cicVars>>

LLBatchFail ==
    /\ fn = "ell" /\ pc = "ell_loop" /\ it <= Len(FullBatchStarts)
    /\ LET i == FullBatchStarts[it]
       IN  ranges' = Append(ranges, PySlice(n_samples, i, i + batch_size))
    /\ Raise("CollaboratorError")
    /\ UNCHANGED <<fn, n_samples, batch_size, x, spn, ll, it, writes>>
    /\ UNCHANGED <<modelVars, csVars, dataVars, cicVars>>

LLRemainder ==
    /\ fn = "ell" /\ pc = "ell_loop" /\ it > Len(FullBatchStarts)
    /\ IF n_remaining_samples > 0
       THEN LET rg == PySliceFrom(n_samples, -n_remaining_samples)
            IN  /\ ll' = AssignSlice(ll, rg, log_likelihood(spn, XSlice(rg)))
                /\ writes' = CountWrites(writes, rg)
                /\ ranges' = Append(ranges, rg)
       ELSE UNCHANGED <<ll, writes, ranges>>
    /\ pc' = "ell_stats"
    /\ UNCHANGED <<fn, err, ret, n_samples, batch_size, x, spn, it>>
    /\ UNCHANGED <<modelVars, csVars, dataVars, cicVars>>

LLRemainderFail ==
    /\ fn = "ell" /\ pc = "ell_loop" /\ it > Len(FullBatchStarts)
    /\ n_remaining_samples > 0
    /\ ranges' = Append(ranges, PySliceFrom(n_samples, -n_remaining_samples))
    /\ Raise("CollaboratorError")
    /\ UNCHANGED <<fn, n_samples, batch_size, x, spn, ll, it, writes>>
    /\ UNCHANGED <<modelVars, csVars, dataVars, cicVars>>

LLStats ==
    /\ fn = "ell" /\ pc = "ell_stats"
    /\ ret' = Stats(ll)
    /\ pc' = "done"
    /\ UNCHANGED <<fn, err, n_samples, batch_size>>
    /\ UNCHANGED <<ellVars, modelVars, csVars, dataVars, cicVars>>

\* --------------------------------------------------------- collect_samples
\* model.sample(count).cpu(): count fresh samples, identified by the order in
\* which the model generated them
ModelSample(count) == [j \in 1..count |-> gen_next + j - 1]

\* The number of batches rounded up instead of down: the remainder would then
\* be generated as one more full batch.
n_batches_ceil == (n_samples + batch_size - 1) \div batch_size

\* n_batches = n_samples // batch_size
n_batches == n_samples \div batch_size

\* last_batch_size = n_samples - n_batches * batch_size
last_batch_size == n_samples - n_batches * batch_size

\* return of collect_samples: to the caller of the top-level call, or back
\* into sample_fid_datasets (samples = collect_samples(...))
CSReturn(result) ==
    IF fn = "cs"
    THEN pc' = "done" /\ ret' = result /\ UNCHANGED <<err, fid_samples>>
    ELSE pc' = "fid_choice" /\ fid_samples' = result /\ UNCHANGED <<err, ret>>

CSEval ==
    /\ fn \in {"cs", "fid"} /\ pc = "cs_eval"
    /\ model_training' = FALSE
    /\ eval_calls' = eval_calls + 1
    /\ pc' = IF batch_size = None THEN "cs_single" ELSE "cs_loop"
    /\ batches' = <<>> /\ k' = 0
    /\ UNCHANGED <<fn, err, ret, n_samples, batch_size, fid_samples>>
    /\ UNCHANGED <<model_device, to_calls, sample_calls, mpe_calls, gen_next>>
    /\ UNCHANGED <<ellVars, dataVars, cicVars>>

CSSingle ==
    /\ fn \in {"cs", "fid"} /\ pc = "cs_single"
    /\ sample_calls' = Append(sample_calls, n_samples)
    /\ gen_next' = gen_next + n_samples
    /\ CSReturn(ModelSample(n_samples))
    /\ UNCHANGED <<fn, n_samples, batch_size, batches, k>>
    /\ UNCHANGED <<model_training, model_device, to_calls, eval_calls, mpe_calls>>
    /\ UNCHANGED <<ellVars, dataVars, cicVars>>

CSSingleFail ==
    /\ fn \in {"cs", "fid"} /\ pc = "cs_single"
    /\ sample_calls' = Append(sample_calls, n_samples)
    /\ Raise("CollaboratorError")
    /\ UNCHANGED <<fn, n_samples, batch_size, csVars>>
    /\ UNCHANGED <<model_training, model_device, to_calls, eval_calls,
                   mpe_calls, gen_next>>
    /\ UNCHANGED <<ellVars, dataVars, cicVars>>

CSBatch ==
    /\ fn \in {"cs", "fid"} /\ pc = "cs_loop" /\ k < n_batches
    /\ sample_calls' = Append(sample_calls, batch_size)
    /\ gen_next' = gen_next + batch_size
    /\ batches' = Append(batches, ModelSample(batch_size))
    /\ k' = k + 1
    /\ UNCHANGED <<ctlVars, fid_samples>>
    /\ UNCHANGED <<model_training, model_device, to_calls, eval_calls, mpe_calls>>
    /\ UNCHANGED <<ellVars, dataVars, cicVars>>

CSBatchFail ==
    /\ fn \in {"cs", "fid"} /\ pc = "cs_loop" /\ k < n_batches
    /\ sample_calls' = Append(sample_calls, batch_size)
    /\ Raise("CollaboratorError")
    /\ UNCHANGED <<fn, n_samples, batch_size, csVars>>
    /\ UNCHANGED <<model_training, model_device, to_calls, eval_calls,
                   mpe_calls, gen_next>>
    /\ UNCHANGED <<ellVars, dataVars, cicVars>>

CSLast ==
    /\ fn \in {"cs", "fid"} /\ pc = "cs_loop" /\ k >= n_batches
    /\ IF last_batch_size > 0
       THEN /\ sample_calls' = Append(sample_calls, last_batch_size)
            /\ gen_next' = gen_next + last_batch_size
            /\ batches' = Append(batches, ModelSample(last_batch_size))
       ELSE UNCHANGED <<sample_calls, gen_next, batches>>
    /\ pc' = "cs_cat"
    /\ UNCHANGED <<fn, err, ret, n_samples, batch_size, k, fid_samples>>
    /\ UNCHANGED <<model_training, model_device, to_calls, eval_calls, mpe_calls>>
    /\ UNCHANGED <<ellVars, dataVars, cicVars>>

CSLastFail ==
    /\ fn \in {"cs", "fid"} /\ pc = "cs_loop" /\ k >= n_batches
    /\ last_batch_size > 0
    /\ sample_calls' = Append(sample_calls, last_batch_size)
    /\ Raise("CollaboratorError")
    /\ UNCHANGED <<fn, n_samples, batch_size, csVars>>
    /\ UNCHANGED <<model_training, model_device, to_calls, eval_calls,
                   mpe_calls, gen_next>>
    /\ UNCHANGED <<ellVars, dataVars, cicVars>>

\* torch.cat(batches, dim=0); torch.cat raises RuntimeError on an empty list
CSCat ==
    /\ fn \in {"cs", "fid"} /\ pc = "cs_cat"
    /\ IF batches = <<>>
       THEN Raise("RuntimeError") /\ UNCHANGED fid_samples
       ELSE CSReturn(Concat(batches))
    /\ UNCHANGED <<fn, n_samples, batch_size, batches, k>>
    /\ UNCHANGED <<ellVars, modelVars, dataVars, cicVars>>

\* ----------------------------------------------------- sample_fid_datasets
\* The size check of sample_fid_datasets off by one.
FidTooMany_offbyone == n_samples > data_len + 1

\* n_samples > len(data_test)
FidTooMany == n_samples > data_len

\* replace=False of random_state.choice in sample_fid_datasets
FidReplace == FALSE

\* The draw of collect_image_completions made with replacement.
CicReplace_true == TRUE

\* replace=False of random_state.choice in collect_image_completions
CicReplace == FALSE

\* random_state.choice(population, size=size, replace=replace) raises
\* ValueError when it is asked for more distinct indices than there are
ChoiceFails(population, size, replace) == ~replace /\ size > population

\* the index arrays random_state.choice(population, size, replace) can draw
Choice(population, size, replace) ==
    IF replace THEN [1..size -> 0..(population - 1)]
    ELSE InjSeqs(0..(population - 1), size)

FidCheckFail ==
    /\ fn = "fid" /\ pc = "fid_check"
    /\ FidTooMany
    /\ Raise("ValueError")
    /\ UNCHANGED <<fn, n_samples, batch_size>>
    /\ UNCHANGED <<ellVars, modelVars, csVars, dataVars, cicVars>>

FidCheck ==
    /\ fn = "fid" /\ pc = "fid_check"
    /\ ~FidTooMany
    /\ pc' = "cs_eval"
    /\ UNCHANGED <<fn, err, ret, n_samples, batch_size>>
    /\ UNCHANGED <<ellVars, modelVars, csVars, dataVars, cicVars>>

FidChoice ==
    /\ fn = "fid" /\ pc = "fid_choice"
    /\ ~ChoiceFails(data_len, n_samples, FidReplace)
    /\ \E idx \in Choice(data_len, n_samples, FidReplace) :
          /\ data_indices' = idx
          /\ ret' = <<idx, fid_samples>>
    /\ rng_draws' = rng_draws + 1
    /\ pc' = "done"
    /\ UNCHANGED <<fn, err, n_samples, batch_size>>
    /\ UNCHANGED <<data_len, channels, height, width>>
    /\ UNCHANGED <<ellVars, modelVars, csVars, cicVars>>

\* ----------------------------------------------- collect_image_completions
\* data_test[i]: a (channels, height, width) image whose pixels are all
\* distinct, and distinct from those of every other image
DataImage(i) ==
    [ch \in 0..(channels - 1) |-> [r \in 0..(height - 1) |->
        [c \in 0..(width - 1) |-> i * 1000 + ch * 100 + r * 10 + c]]]

\* The half of the height rounded up instead of down.
half_height_ceil == (height + 1) \div 2

half_height == height \div 2
half_width == width \div 2

\* t[:, rows, :] = np.nan on one image of the batch
MaskRows(img, rg) ==
    [ch \in DOMAIN img |-> [r \in DOMAIN img[ch] |-> [c \in DOMAIN img[ch][r] |->
        IF InRange(rg, r) THEN NaN ELSE img[ch][r][c]]]]

\* t[:, :, cols] = np.nan on one image of the batch
MaskCols(img, rg) ==
    [ch \in DOMAIN img |-> [r \in DOMAIN img[ch] |-> [c \in DOMAIN img[ch][r] |->
        IF InRange(rg, c) THEN NaN ELSE img[ch][r][c]]]]

\* samples_up[:, :, :half_height, :] = np.nan
MaskUp(img) == MaskRows(img, PySlice(height, 0, half_height))
\* samples_down[:, :, half_height:, :] = np.nan
MaskDown(img) == MaskRows(img, PySliceFrom(height, half_height))
\* samples_left[:, :, :, :half_width] = np.nan
MaskLeft(img) == MaskCols(img, PySlice(width, 0, half_width))
\* samples_right[:, :, :, half_width:] = np.nan
MaskRight(img) == MaskCols(img, PySliceFrom(width, half_width))

\* model.mpe on one image: the missing pixels are completed, the others kept
MpeImage(img) ==
    [ch \in DOMAIN img |-> [r \in DOMAIN img[ch] |-> [c \in DOMAIN img[ch][r] |->
        IF img[ch][r][c] = NaN THEN Completed ELSE img[ch][r][c]]]]

\* model.mpe(batch): one completion per image, in the order of the batch
Mpe(batch) == [j \in 1..Len(batch) |-> MpeImage(batch[j])]

\* t.reshape(a, b, ...) of a batch of a * b images (row-major)
Reshape2D(flat, a, b) ==
    [j \in 0..(a - 1) |-> [s \in 0..(b - 1) |-> flat[j * b + s + 1]]]

\* t.permute(1, 0, ...) of a tensor of shape (a, b, ...)
Permute10(t, a, b) ==
    [s \in 0..(b - 1) |-> [j \in 0..(a - 1) |-> t[j][s]]]

\* t.reshape(a * b, ...) of a tensor of shape (a, b, ...)
Flatten2D(t, a, b) ==
    [q \in 1..(a * b) |-> t[(q - 1) \div b][(q - 1) % b]]

\* The reassembly without its permute: the output stays mask-major.
Reassemble_nopermute(orig, compl, n) ==
    Flatten2D(Reshape2D(orig \o compl, 5, n), 5, n)

\* cat, reshape(5, n), permute(1, 0), reshape(5 n) of the original batch and
\* its completions
Reassemble(orig, compl, n) ==
    Flatten2D(Permute10(Reshape2D(orig \o compl, 5, n), 5, n), n, 5)

CICTo ==
    /\ fn = "cic" /\ pc = "cic_to"
    /\ \E d \in {"cpu", "cuda"} : model_device' = d
    /\ to_calls' = to_calls + 1
    /\ pc' = "cic_eval"
    /\ UNCHANGED <<fn, err, ret, n_samples, batch_size>>
    /\ UNCHANGED <<model_training, eval_calls, sample_calls, mpe_calls, gen_next>>
    /\ UNCHANGED <<ellVars, csVars, dataVars, cicVars>>

CICEval ==
    /\ fn = "cic" /\ pc = "cic_eval"
    /\ model_training' = FALSE
    /\ eval_calls' = eval_calls + 1
    /\ pc' = "cic_draw"
    /\ UNCHANGED <<fn, err, ret, n_samples, batch_size>>
    /\ UNCHANGED <<model_device, to_calls, sample_calls, mpe_calls, gen_next>>
    /\ UNCHANGED <<ellVars, csVars, dataVars, cicVars>>

CICDrawFail ==
    /\ fn = "cic" /\ pc = "cic_draw"
    /\ ChoiceFails(data_len, n_samples, CicReplace)
    /\ Raise("ValueError")
    /\ UNCHANGED <<fn, n_samples, batch_size>>
    /\ UNCHANGED <<ellVars, modelVars, csVars, dataVars, cicVars>>

CICDraw ==
    /\ fn = "cic" /\ pc = "cic_draw"
    /\ ~ChoiceFails(data_len, n_samples, CicReplace)
    /\ \E idx \in Choice(data_len, n_samples, CicReplace) : samples_idx' = idx
    /\ rng_draws' = rng_draws + 1
    /\ pc' = "cic_gather"
    /\ UNCHANGED <<fn, err, ret, n_samples, batch_size>>
    /\ UNCHANGED <<data_len, data_indices, channels, height, width>>
    /\ UNCHANGED <<samples, samples_up, samples_down, samples_left,
                   samples_right, uncomplete_samples, complete_samples>>
    /\ UNCHANGED <<ellVars, modelVars, csVars>>

\* torch.stack raises RuntimeError on an empty list
CICGatherFail ==
    /\ fn = "cic" /\ pc = "cic_gather"
    /\ samples_idx = <<>>
    /\ Raise("RuntimeError")
    /\ UNCHANGED <<fn, n_samples, batch_size>>
    /\ UNCHANGED <<ellVars, modelVars, csVars, dataVars, cicVars>>

CICGather ==
    /\ fn = "cic" /\ pc = "cic_gather"
    /\ samples_idx # <<>>
    /\ samples' = [s \in 1..Len(samples_idx) |-> DataImage(samples_idx[s])]
    /\ pc' = "cic_mask"
    /\ UNCHANGED <<fn, err, ret, n_samples, batch_size>>
    /\ UNCHANGED <<samples_idx, samples_up, samples_down, samples_left,
                   samples_right, uncomplete_samples, complete_samples>>
    /\ UNCHANGED <<ellVars, modelVars, csVars, dataVars>>

CICMask ==
    /\ fn = "cic" /\ pc = "cic_mask"
    /\ samples_up' = [s \in 1..Len(samples) |-> MaskUp(samples[s])]
    /\ samples_down' = [s \in 1..Len(samples) |-> MaskDown(samples[s])]
    /\ samples_left' = [s \in 1..Len(samples) |-> MaskLeft(samples[s])]
    /\ samples_right' = [s \in 1..Len(samples) |-> MaskRight(samples[s])]
    /\ uncomplete_samples' =
          samples_up' \o samples_down' \o samples_left' \o samples_right'
    /\ pc' = "cic_mpe"
    /\ UNCHANGED <<fn, err, ret, n_samples, batch_size>>
    /\ UNCHANGED <<samples_idx, samples, complete_samples>>
    /\ UNCHANGED <<ellVars, modelVars, csVars, dataVars>>

CICMpe ==
    /\ fn = "cic" /\ pc = "cic_mpe"
    /\ mpe_calls' = mpe_calls + 1
    /\ complete_samples' = Mpe(uncomplete_samples)
    /\ pc' = "cic_reassemble"
    /\ UNCHANGED <<fn, err, ret, n_samples, batch_size>>
    /\ UNCHANGED <<model_training, model_device, to_calls, eval_calls,
                   sample_calls, gen_next>>
    /\ UNCHANGED <<samples_idx, samples, samples_up, samples_down,
                   samples_left, samples_right, uncomplete_samples>>
    /\ UNCHANGED <<ellVars, csVars, dataVars>>

CICMpeFail ==
    /\ fn = "cic" /\ pc = "cic_mpe"
    /\ mpe_calls' = mpe_calls + 1
    /\ Raise("CollaboratorError")
    /\ UNCHANGED <<fn, n_samples, batch_size>>
    /\ UNCHANGED <<model_training, model_device, to_calls, eval_calls,
                   sample_calls, gen_next>>
    /\ UNCHANGED <<ellVars, csVars, dataVars, cicVars>>

CICReassemble ==
    /\ fn = "cic" /\ pc = "cic_reassemble"
    /\ ret' = Reassemble(samples, complete_samples, n_samples)
    /\ pc' = "done"
    /\ UNCHANGED <<fn, err, n_samples, batch_size>>
    /\ UNCHANGED <<ellVars, modelVars, csVars, dataVars, cicVars>>

Next ==
    \/ LLAlloc \/ LLBatch \/ LLBatchFail \/ LLRemainder \/ LLRemainderFail
    \/ LLStats
    \/ CSEval \/ CSSingle \/ CSSingleFail \/ CSBatch \/ CSBatchFail
    \/ CSLast \/ CSLastFail \/ CSCat
    \/ FidCheckFail \/ FidCheck \/ FidChoice
    \/ CICTo \/ CICEval \/ CICDrawFail \/ CICDraw \/ CICGatherFail
    \/ CICGather \/ CICMask \/ CICMpe \/ CICMpeFail \/ CICReassemble

Spec == Init /\ [][Next]_vars

\* ================================================================== claims
\* The statistics of evaluate_log_likelihoods have been computed, or are
\* about to be: every scoring call has been made.
ScoringOver == fn = "ell" /\ pc \in {"ell_stats", "done"}

\* C1: the index ranges that evaluate_log_likelihoods scores partition
\* [0, n_samples): every position lies in exactly one range, every range has
\* a width between 1 and batch_size, only the last range may be narrower
\* than batch_size, and when the statistics are computed every position of
\* ll has been written exactly once.
C1_RangesPartition ==
    ScoringOver =>
        /\ \A p \in 0..(n_samples - 1) :
              Cardinality({j \in 1..Len(ranges) : InRange(ranges[j], p)}) = 1
        /\ \A j \in 1..Len(ranges) :
              /\ 0 <= ranges[j][1] /\ ranges[j][2] <= n_samples
              /\ ranges[j][2] - ranges[j][1] >= 1
              /\ ranges[j][2] - ranges[j][1] <= batch_size
              /\ ranges[j][2] - ranges[j][1] < batch_size => j = Len(ranges)
        /\ \A p \in 0..(n_samples - 1) : writes[p] = 1

\* C2: with a score function that gives every sample the same value c, and
\* n_samples >= 1, the returned mean is c and the returned error statistic is
\* 0, and every entry of ll equals c when the statistics are computed.
C2_ConstantScore ==
    \A c \in ScoreVals :
        (/\ fn = "ell" /\ pc = "done" /\ n_samples >= 1
         /\ \A d \in DataVals : spn[d] = c)
        => /\ \A p \in 0..(n_samples - 1) : ll[p] = c
           /\ ret[1] = c * ret[2]
           /\ ret[3] = 0

\* The score vector that one call on all the inputs gives.
SingleCallScores == log_likelihood(spn, XSlice(<<0, n_samples>>))

\* C3: for a batch size that divides n_samples (1 and n_samples included) the
\* populated score vector, and so the returned pair, is the one obtained by
\* scoring all the inputs in a single call.
C3_BatchSizeInvariant ==
    (fn = "ell" /\ pc = "done" /\ n_samples >= 1 /\ n_samples % batch_size = 0)
    => /\ \A p \in 0..(n_samples - 1) : ll[p] = SingleCallScores[p + 1]
       /\ ret = Stats([p \in 0..(n_samples - 1) |-> SingleCallScores[p + 1]])

\* The generation calls the contract of collect_samples prescribes.
ExpectedCalls ==
    IF batch_size = None THEN <<n_samples>>
    ELSE LET full == n_samples \div batch_size
             rest == n_samples - full * batch_size
         IN  [j \in 1..full |-> batch_size]
             \o (IF rest > 0 THEN <<rest>> ELSE <<>>)

IsPrefix(a, b) == Len(a) <= Len(b) /\ \A j \in 1..Len(a) : a[j] = b[j]

InCollectSamples == fn \in {"cs", "fid"}

\* collect_samples has issued all its generation calls
CallsOver ==
    \/ pc \in {"cs_cat", "fid_choice", "done"}
    \/ pc = "raised" /\ err = "RuntimeError"

CallOrder ==
    /\ IsPrefix(sample_calls, ExpectedCalls)
    /\ CallsOver => sample_calls = ExpectedCalls

\* C4 as stated: the calls are the prescribed sequence, and no call is ever
\* issued for a count of 0 or for a count greater than batch_size.
C4_CallSequence_Original ==
    InCollectSamples =>
        /\ CallOrder
        /\ \A j \in 1..Len(sample_calls) :
              /\ sample_calls[j] # 0
              /\ batch_size # None => sample_calls[j] <= batch_size

\* C4 (amended): the calls are the prescribed sequence (one call for
\* n_samples when batch_size is None, else n_samples // batch_size calls for
\* batch_size and one for the remainder iff it is > 0), and when batch_size is
\* given no call is issued for a count of 0 or greater than batch_size.
C4_CallSequence ==
    InCollectSamples =>
        /\ CallOrder
        /\ batch_size # None =>
              \A j \in 1..Len(sample_calls) :
                  sample_calls[j] # 0 /\ sample_calls[j] <= batch_size

C4_Witness ==
    /\ fn = "cs" /\ pc = "done" /\ batch_size # None
    /\ Len(sample_calls) >= 3
    /\ sample_calls[Len(sample_calls)] < batch_size

\* C5: given a model that returns exactly the number of samples it is asked
\* for, collect_samples returns a batch of exactly n_samples samples, in the
\* order of the calls, for every n_samples >= 0 and every batch_size.
C5_LengthAndOrder ==
    (fn = "cs" /\ pc \in {"done", "raised"} /\ err # "CollaboratorError")
    => /\ pc = "done"
       /\ Len(ret) = n_samples
       /\ \A j \in 1..Len(ret) : ret[j] = j - 1

CicTooMany == fn = "cic" /\ n_samples > data_len

\* C6 as stated: with n_samples > len(data_test) collect_image_completions
\* fails before any call on the model: not moved, mode not changed, no mpe.
C6_NoModelCall_Original ==
    CicTooMany =>
        /\ mpe_calls = 0
        /\ pc = "raised" =>
              err = "ValueError" /\ to_calls = 0 /\ eval_calls = 0

\* C6 (amended): with n_samples > len(data_test) collect_image_completions
\* fails with the out-of-range error of the draw step, before any image is
\* gathered or masked and before mpe is invoked; by then the model has been
\* moved to the device and set to evaluation mode, once each.
C6_FailsAtDraw ==
    CicTooMany =>
        /\ mpe_calls = 0 /\ rng_draws = 0
        /\ samples = <<>> /\ uncomplete_samples = <<>>
        /\ pc \in {"cic_to", "cic_eval", "cic_draw", "raised"}
        /\ pc = "raised" =>
              /\ err = "ValueError"
              /\ to_calls = 1 /\ eval_calls = 1 /\ model_training = FALSE

C6_Witness == CicTooMany /\ pc = "raised" /\ to_calls = 1

\* C7: with n_samples > len(data_test) sample_fid_datasets fails with the
\* invalid-argument error and does no work (the mode of the model is not
\* changed, nothing is generated, no index is drawn); with
\* n_samples <= len(data_test) that error is not raised.
C7_FidRejects ==
    fn = "fid" =>
        /\ n_samples > data_len =>
              /\ pc \in {"fid_check", "raised"}
              /\ pc = "raised" => err = "ValueError"
              /\ eval_calls = 0 /\ sample_calls = <<>> /\ gen_next = 0
              /\ rng_draws = 0 /\ data_indices = <<>>
        /\ n_samples <= data_len => err # "ValueError"

C7_Witness == fn = "fid" /\ n_samples > data_len /\ pc = "raised"

\* C8: for n_samples = n >= 1 the output of collect_image_completions has
\* length 5 n and is sample-major: position 5 s holds the original image of
\* the s-th drawn sample and positions 5 s + 1 .. 5 s + 4 the completions of
\* that sample under the top, bottom, left and right masks, in that order.
C8_SampleMajor ==
    (fn = "cic" /\ pc = "done" /\ n_samples >= 1)
    => /\ Len(ret) = 5 * n_samples
       /\ \A s \in 0..(n_samples - 1) :
             /\ ret[5 * s + 1] = DataImage(samples_idx[s + 1])
             /\ ret[5 * s + 2] = MpeImage(samples_up[s + 1])
             /\ ret[5 * s + 3] = MpeImage(samples_down[s + 1])
             /\ ret[5 * s + 4] = MpeImage(samples_left[s + 1])
             /\ ret[5 * s + 5] = MpeImage(samples_right[s + 1])

C8_Witness ==
    /\ fn = "cic" /\ pc = "done" /\ n_samples >= 2
    /\ height >= 2 /\ width >= 2
    /\ samples_idx[1] > samples_idx[2]

\* The four masked copies have been made.
Masked == fn = "cic" /\ samples_up # <<>>

\* Each masked copy marks exactly the pixels of its half and keeps every
\* other pixel of the original, the halves being split at row th2 / 2 and at
\* column tw2 / 2 (r < th2 / 2 is 2 r < th2); the gathered batch itself still
\* holds the drawn images.
MasksSplitAt(th2, tw2) ==
    \A s \in 1..Len(samples) :
        /\ samples[s] = DataImage(samples_idx[s])
        /\ \A ch \in 0..(channels - 1), r \in 0..(height - 1),
              c \in 0..(width - 1) :
              LET orig == DataImage(samples_idx[s])[ch][r][c]
              IN  /\ samples_up[s][ch][r][c] =
                        IF 2 * r < th2 THEN NaN ELSE orig
                  /\ samples_down[s][ch][r][c] =
                        IF 2 * r >= th2 THEN NaN ELSE orig
                  /\ samples_left[s][ch][r][c] =
                        IF 2 * c < tw2 THEN NaN ELSE orig
                  /\ samples_right[s][ch][r][c] =
                        IF 2 * c >= tw2 THEN NaN ELSE orig

\* C9 as stated: the top copy marks exactly the rows with index < height / 2,
\* the bottom copy the rows >= height / 2, the left copy the columns
\* < width / 2 and the right copy the columns >= width / 2, for even and odd
\* sizes, and the original batch is left unmodified.
C9_HalfMasks_Original == Masked => MasksSplitAt(height, width)

\* C9 (amended): the halves are split at floor(height / 2) and
\* floor(width / 2): top marks rows < floor(height / 2), bottom rows >= it,
\* left columns < floor(width / 2), right columns >= it; the original batch is
\* left unmodified.
C9_HalfMasks ==
    Masked => MasksSplitAt(2 * (height \div 2), 2 * (width \div 2))

C9_Witness ==
    /\ Masked /\ height = 3 /\ width = 3
    /\ samples_up[1][0][0][0] = NaN /\ samples_up[1][0][1][0] # NaN
    /\ samples_right[1][0][0][1] = NaN

Last(q) == q[Len(q)]

\* C10: the chunks are processed one after the other in index order, and a
\* failure of the collaborator on a chunk ends the call at once: the
\* exception is what the caller gets, no later chunk is scored or generated,
\* the failing call is not repeated and nothing is returned.
C10_FailFast ==
    [][/\ pc \notin {"raised", "done"}
       /\ err' = "CollaboratorError" => pc' = "raised" /\ ret' = <<>>
       /\ ranges' # ranges =>
             /\ \E rg \in (0..n_samples) \X (0..n_samples) :
                   ranges' = Append(ranges, rg)
             /\ ranges # <<>> => Last(ranges)[2] <= Last(ranges')[1]
       /\ sample_calls' # sample_calls =>
             /\ \E cnt \in 0..n_samples :
                   sample_calls' = Append(sample_calls, cnt)
             /\ pc' # "raised" => /\ gen_next' = gen_next + Last(sample_calls')
                                  /\ (pc = "cs_loop" =>
                                        Len(batches') = Len(sample_calls'))
      ]_vars

C10_Witness ==
    /\ fn = "ell" /\ pc = "raised" /\ err = "CollaboratorError"
    /\ Len(ranges) = 2 /\ Len(FullBatchStarts) >= 3

====
